---- MODULE Spec2Model ----
(***************************************************************************)
(* Model of src/main.py: the benchmark harness that sends one prompt per  *)
(* task to a model (_process_task, a bounded retry loop around            *)
(* litellm.completion), extracts the first fenced python block from the   *)
(* answer (_get_python_code) and records it, or a canned program, as the  *)
(* response of the task (run).                                            *)
(*                                                                         *)
(* Texts are sequences of characters over a four letter alphabet that     *)
(* keeps every distinction the regular expression of line 46 makes:       *)
(*   "bt"  a backtick                                                     *)
(*   "T"   the literal tag  python\n  (it holds no backtick, and two      *)
(*         occurrences cannot overlap, so reading it as one letter loses  *)
(*         nothing)                                                       *)
(*   "\n"  a newline outside the tag                                      *)
(*   "x"   any other character                                            *)
(* "F" stands for the body of the canned program of lines 28-42, which    *)
(* holds neither a backtick nor the tag.                                  *)
(***************************************************************************)
EXTENDS Integers, Sequences, FiniteSets, TLC

\* ------------------------------------------------------------ constants

\* line 100
max_retries == 10
\* line 101
retry_delay == 60
\* line 126, 136: random.randint(1, 10), both ends included
jitter_min == 1
jitter_max == 10

\* Number of tasks of the input mapping.
NumTasks == 2
\* Longest text drawn letter by letter for _get_python_code.
MaxTextLen == 7
\* Longest text drawn as a concatenation of chunks for _get_python_code.
MaxChunks == 5

Tasks == 1..NumTasks

\* lines 28-42
FAILED_RESPONSE == <<"\n", "F", "\n">>

Chars == {"bt", "T", "\n", "x"}

\* the opening fence (three backticks, python, newline) and the closing
\* fence (three backticks) of line 46
OpenFence == <<"bt", "bt", "bt", "T">>
CloseFence == <<"bt", "bt", "bt">>

\* ------------------------------------------------------------ texts

RECURSIVE Concat(_)
Concat(ss) == IF ss = <<>> THEN <<>> ELSE Head(ss) \o Concat(Tail(ss))

\* What the model may answer in a run: no text at all, one fenced block,
\* prose without a block, two blocks with prose between and after them.
ModelTexts ==
    { <<>>,
      OpenFence \o <<"x", "\n">> \o CloseFence,
      <<"x", "x">>,
      OpenFence \o <<"\n">> \o CloseFence \o <<"x">> \o OpenFence \o <<"x">> \o CloseFence \o <<"x">> }

\* usage.completion_tokens of a response
TokenCounts == {0, 1, 2}

\* ------------------------------------------------------------ _get_python_code

\* re: a literal part of the pattern matches text at position i
MatchesAt(lit, text, i) ==
    /\ i >= 1
    /\ i + Len(lit) - 1 <= Len(text)
    /\ \A k \in 1..Len(lit) : text[i + k - 1] = lit[k]

\* re.DOTALL (line 72): "." matches every character, newline included
DotNoNewline(c) == c # "\n"
Dot(c) == TRUE

\* Positions j where the closing fence can end a match opened at i:
\* every character between the opening fence and j is matched by "."
ClosePositions(text, i) ==
    { j \in (i + Len(OpenFence))..(Len(text) + 1) :
        /\ MatchesAt(CloseFence, text, j)
        /\ \A k \in (i + Len(OpenFence))..(j - 1) : Dot(text[k]) }

Min(S) == CHOOSE m \in S : \A n \in S : m <= n
Max(S) == CHOOSE m \in S : \A n \in S : m >= n

\* (.*?) is lazy: the match ends at the nearest closing fence
GreedyClose(text, i) == Max(ClosePositions(text, i))
LazyClose(text, i) == Min(ClosePositions(text, i))

\* a match of the whole pattern starts at i
MatchStartsAt(text, i) ==
    /\ MatchesAt(OpenFence, text, i)
    /\ ClosePositions(text, i) # {}

\* re.findall (line 72): the captured groups of the non-overlapping
\* matches, scanning left to right from position from
RECURSIVE findall_from(_, _)
findall_from(text, from) ==
    LET starts == { i \in from..Len(text) : MatchStartsAt(text, i) }
    IN  IF starts = {} THEN <<>>
        ELSE LET i == Min(starts)
                 j == LazyClose(text, i)
             IN  <<SubSeq(text, i + Len(OpenFence), j - 1)>>
                   \o findall_from(text, j + Len(CloseFence))

\* re.findall always returns a list, never None
findall(text) == [is_none |-> FALSE, list |-> findall_from(text, 1)]

Returned(v) == [kind |-> "return", value |-> v]
Raised(t) == [kind |-> "raise", value |-> <<t>>]
NoCall == [kind |-> "none", value |-> <<>>]

\* lines 48-82
get_python_code(text) ==
    LET matches == findall(text)
    IN  IF matches.is_none
        THEN Returned(FAILED_RESPONSE)
        ELSE IF Len(matches.list) = 0
             THEN Raised("IndexError")
             ELSE Returned(matches.list[1])

\* ------------------------------------------------------------ state

VARIABLES
    pc,                 \* where run is: see the actions
    idx,                \* position of the for loops of lines 169 and 229 in input.items()
    input,              \* the task mapping: input[i].response is <<>> while the key is absent
    results,            \* line 164: results[i] is <<>> while the key is absent
    code,               \* line 166: code[i] is <<>> while the key is absent
    attempt,            \* line 103
    this_retry_delay,   \* lines 126, 136; 0 outside a suspension
    response,           \* lines 106, 203
    e,                  \* the exception in flight or being handled
    python_code,        \* how the call of line 215 ended
    calls,              \* transport calls made by the current _process_task call
    slept,              \* seconds the current _process_task call has been suspended
    last_call,          \* how the last transport call of the current _process_task call ended
    only_rate_limited,  \* every failed attempt of the current _process_task call raised RateLimitError
    inference,          \* per task, how its _process_task call ended
    template,           \* per task, what os.path.exists(template_path) of line 174 answered
    writes              \* per task, the assignments to input[i]['response']

vars == <<pc, idx, input, results, code, attempt, this_retry_delay, response, e,
          python_code, calls, slept, last_call, only_rate_limited, inference,
          template, writes>>

NoResponse == [tokens |-> -1, content |-> <<>>]
\* what _process_task returns when its for loop runs out (no return statement)
NoneResponse == [tokens |-> -2, content |-> <<>>]
NoException == [type |-> "none", attempt |-> 0, content |-> <<>>]

\* the structured results the transport can return
Responses == [tokens : TokenCounts, content : ModelTexts]

\* the types of exception the transport can raise: litellm.RateLimitError,
\* or anything else
TransportErrors == {"RateLimitError", "Exception"}

\* lines 126, 136: random.randint(1, 10)
JittersFromZero == 0..(jitter_max - 1)
Jitters == jitter_min..jitter_max

\* ------------------------------------------------------------ _process_task

\* line 118
IsEmptyResponseUpToOne(r) == r.tokens <= 1
IsEmptyResponseNoText(r) == r.tokens = 0 /\ r.content = <<>>
IsEmptyResponse(r) == r.tokens = 0

\* lines 123, 133: the except clauses that may retry; line 144 takes the rest
RetryableAll(type) == TRUE
Retryable(type) == type \in {"NoContentGeneratedException", "RateLimitError"}

\* lines 124, 134
ShouldRetryShort(a) == a < max_retries - 2
ShouldRetryNever(a) == FALSE
ShouldRetry(a) == a < max_retries - 1

\* lines 126, 136
RetryDelayFromZero(a, jitter) == retry_delay * a + jitter
RetryDelay(a, jitter) == retry_delay * (a + 1) + jitter

\* _process_task with its attempt counter kept from the call before: after
\* a task that used up the budget the next one starts at the last attempt
StartTaskKeepsAttempt ==
    /\ pc = "loop"
    /\ idx <= NumTasks
    /\ pc' = "call"
    /\ attempt' = IF idx > 1 /\ inference[idx - 1] = "exhausted" THEN max_retries - 1 ELSE 0
    /\ calls' = 0
    /\ slept' = 0
    /\ last_call' = "none"
    /\ only_rate_limited' = TRUE
    /\ template' = [template EXCEPT ![idx] = "found"]
    /\ UNCHANGED <<idx, input, results, code, this_retry_delay, response, e,
                   python_code, inference, writes>>

\* lines 169-206: the next task is started, its template is on disk, its
\* prompt is formatted and _process_task is entered (lines 100-103)
StartTask ==
    /\ pc = "loop"
    /\ idx <= NumTasks
    /\ pc' = "call"
    /\ attempt' = 0
    /\ calls' = 0
    /\ slept' = 0
    /\ last_call' = "none"
    /\ only_rate_limited' = TRUE
    /\ template' = [template EXCEPT ![idx] = "found"]
    /\ UNCHANGED <<idx, input, results, code, this_retry_delay, response, e,
                   python_code, inference, writes>>

\* the check of lines 174-178 moved inside the try of line 186
TemplateMissingCaught ==
    /\ pc = "loop"
    /\ idx <= NumTasks
    /\ pc' = "loop"
    /\ idx' = idx + 1
    /\ code' = [code EXCEPT ![idx] = <<FAILED_RESPONSE>>]
    /\ template' = [template EXCEPT ![idx] = "missing"]
    /\ UNCHANGED <<input, results, attempt, this_retry_delay, response, e,
                   python_code, calls, slept, last_call, only_rate_limited, inference, writes>>

\* lines 174-178: the template is not on disk; FileNotFoundError is raised
\* outside the try of line 186 and leaves run
TemplateMissing ==
    /\ pc = "loop"
    /\ idx <= NumTasks
    /\ pc' = "aborted"
    /\ e' = [type |-> "FileNotFoundError", attempt |-> 0, content |-> <<>>]
    /\ template' = [template EXCEPT ![idx] = "missing"]
    /\ UNCHANGED <<idx, input, results, code, attempt, this_retry_delay, response,
                   python_code, calls, slept, last_call, only_rate_limited, inference, writes>>

\* the two retrying clauses (lines 123-132, 133-142) with a backoff of
\* their own each: the empty-content clause waits retry_delay plus jitter
\* whatever the attempt
HandleExceptionPerKind(exc) ==
    IF Retryable(exc.type) /\ ShouldRetry(attempt)
    THEN /\ \E jitter \in Jitters :
              this_retry_delay' = IF exc.type = "NoContentGeneratedException"
                                  THEN retry_delay + jitter
                                  ELSE RetryDelay(attempt, jitter)
         /\ pc' = "sleep"
         /\ e' = exc
         /\ UNCHANGED inference
    ELSE /\ pc' = "raised"
         /\ e' = exc
         /\ this_retry_delay' = 0
         /\ inference' = [inference EXCEPT ![idx] =
                            IF Retryable(exc.type) THEN "exhausted" ELSE "fatal"]

\* lines 123-146: exception exc reaches the except clauses at this attempt
HandleException(exc) ==
    IF Retryable(exc.type) /\ ShouldRetry(attempt)
    THEN /\ \E jitter \in Jitters : this_retry_delay' = RetryDelay(attempt, jitter)
         /\ pc' = "sleep"
         /\ e' = exc
         /\ UNCHANGED inference
    ELSE /\ pc' = "raised"
         /\ e' = exc
         /\ this_retry_delay' = 0
         /\ inference' = [inference EXCEPT ![idx] =
                            IF Retryable(exc.type) THEN "exhausted" ELSE "fatal"]

\* lines 106-121: the transport returns a result
CompletionReturns ==
    /\ pc = "call"
    /\ \E r \in Responses :
         /\ response' = r
         /\ IF IsEmptyResponse(r)
            THEN HandleException([type |-> "NoContentGeneratedException",
                                  attempt |-> attempt, content |-> r.content])
            ELSE /\ pc' = "returned"
                 /\ inference' = [inference EXCEPT ![idx] = "returned"]
                 /\ UNCHANGED <<e, this_retry_delay>>
    /\ calls' = calls + 1
    /\ last_call' = "result"
    /\ only_rate_limited' = (only_rate_limited /\ ~IsEmptyResponse(response'))
    /\ UNCHANGED template
    /\ UNCHANGED <<idx, input, results, code, attempt, python_code, slept, writes>>

\* line 106: the transport raises
CompletionRaises ==
    /\ pc = "call"
    /\ \E type \in TransportErrors :
         /\ HandleException([type |-> type, attempt |-> attempt, content |-> <<>>])
         /\ last_call' = type
         /\ only_rate_limited' = (only_rate_limited /\ type = "RateLimitError")
    /\ calls' = calls + 1
    /\ UNCHANGED template
    /\ UNCHANGED <<idx, input, results, code, attempt, response, python_code, slept, writes>>

\* a loop that retries without counting: while True in place of the for of
\* line 103
WakeSameAttempt ==
    /\ pc = "sleep"
    /\ slept' = slept + this_retry_delay
    /\ this_retry_delay' = 0
    /\ e' = NoException
    /\ pc' = "call"
    /\ UNCHANGED <<idx, input, results, code, attempt, response, python_code, calls,
                   last_call, only_rate_limited, inference, template, writes>>

\* lines 128-129, 138-139, 103: the suspension ends and the loop goes on;
\* when range(max_retries) is used up the function ends and returns None
Wake ==
    /\ pc = "sleep"
    /\ slept' = slept + this_retry_delay
    /\ this_retry_delay' = 0
    /\ e' = NoException
    /\ IF attempt + 1 < max_retries
       THEN /\ attempt' = attempt + 1
            /\ pc' = "call"
            /\ UNCHANGED <<response, inference>>
       ELSE /\ pc' = "returned"
            /\ response' = NoneResponse
            /\ inference' = [inference EXCEPT ![idx] = "returned"]
            /\ UNCHANGED attempt
    /\ UNCHANGED template
    /\ UNCHANGED <<idx, input, results, code, python_code, calls, last_call,
                   only_rate_limited, writes>>

\* ------------------------------------------------------------ run

\* line 222: except Exception takes every exception raised inside the try
PerTaskCaughtButRetryErrors(type) == type \notin {"NoContentGeneratedException", "RateLimitError", "Exception"}
PerTaskCaughtButIndexError(type) == type # "IndexError"
PerTaskCaughtNothing(type) == FALSE
PerTaskCaught(type) == TRUE

\* the locals of _process_task are gone once it has returned or raised
FrameDiscarded ==
    /\ attempt' = -1
    /\ calls' = 0
    /\ slept' = 0
    /\ last_call' = "none"
    /\ only_rate_limited' = TRUE
    /\ this_retry_delay' = 0

\* the handler of lines 222-226 without its line 226
CaughtNotRecorded(exc) ==
    /\ idx' = idx + 1
    /\ pc' = "loop"
    /\ e' = NoException
    /\ UNCHANGED code

\* lines 222-226: exception exc, raised inside the try of line 186, is
\* caught and the canned program recorded; an exception the clause does not
\* take leaves run
Caught(exc) ==
    IF PerTaskCaught(exc.type)
    THEN /\ code' = [code EXCEPT ![idx] = <<FAILED_RESPONSE>>]
         /\ idx' = idx + 1
         /\ pc' = "loop"
         /\ e' = NoException
    ELSE /\ pc' = "aborted"
         /\ e' = exc
         /\ UNCHANGED <<code, idx>>

\* lines 203-212: _process_task has returned; the content of the first
\* choice is stored in results (None has no choices: TypeError)
TaskReturned ==
    /\ pc = "returned"
    /\ IF response = NoneResponse
       THEN /\ Caught([type |-> "TypeError", attempt |-> 0, content |-> <<>>])
            /\ UNCHANGED results
       ELSE /\ results' = [results EXCEPT ![idx] = <<response.content>>]
            /\ pc' = "extract"
            /\ UNCHANGED <<code, idx, e>>
    /\ response' = NoResponse
    /\ FrameDiscarded
    /\ UNCHANGED template
    /\ UNCHANGED <<input, python_code, inference, writes>>

\* line 215: _get_python_code is called on the stored content
GetPythonCode ==
    /\ pc = "extract"
    /\ python_code' = get_python_code(results[idx][1])
    /\ pc' = "extracted"
    /\ UNCHANGED template
    /\ UNCHANGED <<idx, input, results, code, attempt, this_retry_delay, response, e,
                   calls, slept, last_call, only_rate_limited, inference, writes>>

\* line 216 writing the response field of the task at once as well
StoreCodeAndResponse ==
    /\ pc = "extracted"
    /\ python_code.kind = "return"
    /\ code' = [code EXCEPT ![idx] = <<python_code.value>>]
    /\ input' = [input EXCEPT ![idx].response = <<python_code.value>>]
    /\ idx' = idx + 1
    /\ pc' = "loop"
    /\ python_code' = NoCall
    /\ UNCHANGED <<results, attempt, this_retry_delay, response, e, calls, slept,
                   last_call, only_rate_limited, inference, template, writes>>

\* lines 215-220: the extracted code is recorded; lines 222-226 when
\* _get_python_code raised
StoreCode ==
    /\ pc = "extracted"
    /\ IF python_code.kind = "return"
       THEN /\ code' = [code EXCEPT ![idx] = <<python_code.value>>]
            /\ idx' = idx + 1
            /\ pc' = "loop"
            /\ UNCHANGED e
       ELSE Caught([type |-> python_code.value[1], attempt |-> 0, content |-> <<>>])
    /\ python_code' = NoCall
    /\ UNCHANGED template
    /\ UNCHANGED <<input, results, attempt, this_retry_delay, response,
                   calls, slept, last_call, only_rate_limited, inference, writes>>

\* lines 203, 222-226: _process_task has raised
TaskFailed ==
    /\ pc = "raised"
    /\ Caught(e)
    /\ FrameDiscarded
    /\ UNCHANGED template
    /\ UNCHANGED <<input, results, response, python_code, inference, writes>>

\* lines 169, 229: the first loop is over, the second begins
LoopDone ==
    /\ pc = "loop"
    /\ idx = NumTasks + 1
    /\ pc' = "merge"
    /\ idx' = 1
    /\ UNCHANGED template
    /\ UNCHANGED <<input, results, code, attempt, this_retry_delay, response, e,
                   python_code, calls, slept, last_call, only_rate_limited, inference, writes>>

\* line 229: the second loop has an item left at position i
MoreToAssignButLast(i) == i < NumTasks
MoreToAssign(i) == i <= NumTasks

\* line 230: the record with its response field set; its other fields stay
OnlyResponse(record, value) == [response |-> value]
WithResponse(record, value) == [record EXCEPT !.response = value]

\* lines 229-230: one pass of the second loop (code[task_id] of an absent
\* key: KeyError, which leaves run)
AssignResponse ==
    /\ pc = "merge"
    /\ MoreToAssign(idx)
    /\ IF code[idx] = <<>>
       THEN /\ pc' = "aborted"
            /\ e' = [type |-> "KeyError", attempt |-> 0, content |-> <<>>]
            /\ UNCHANGED <<input, idx, writes>>
       ELSE /\ input' = [input EXCEPT ![idx] = WithResponse(input[idx], code[idx])]
            /\ writes' = [writes EXCEPT ![idx] = @ + 1]
            /\ idx' = idx + 1
            /\ UNCHANGED <<pc, e>>
    /\ UNCHANGED template
    /\ UNCHANGED <<results, code, attempt, this_retry_delay, response,
                   python_code, calls, slept, last_call, only_rate_limited, inference>>

\* line 235
Return ==
    /\ pc = "merge"
    /\ ~MoreToAssign(idx)
    /\ pc' = "done"
    /\ UNCHANGED template
    /\ UNCHANGED <<idx, input, results, code, attempt, this_retry_delay, response, e,
                   python_code, calls, slept, last_call, only_rate_limited, inference, writes>>

\* ------------------------------------------------------------ specifications

\* line 240: the task mapping as loaded; lines 164-166
Init ==
    /\ pc = "loop"
    /\ idx = 1
    /\ input = [i \in Tasks |-> [description |-> i, response |-> <<>>]]
    /\ results = [i \in Tasks |-> <<>>]
    /\ code = [i \in Tasks |-> <<>>]
    /\ attempt = -1
    /\ this_retry_delay = 0
    /\ response = NoResponse
    /\ e = NoException
    /\ python_code = NoCall
    /\ calls = 0
    /\ slept = 0
    /\ last_call = "none"
    /\ only_rate_limited = TRUE
    /\ inference = [i \in Tasks |-> "none"]
    /\ template = [i \in Tasks |-> "unchecked"]
    /\ writes = [i \in Tasks |-> 0]

Next ==
    \/ StartTask
    \/ TemplateMissing
    \/ CompletionReturns
    \/ CompletionRaises
    \/ Wake
    \/ TaskReturned
    \/ GetPythonCode
    \/ StoreCode
    \/ TaskFailed
    \/ LoopDone
    \/ AssignResponse
    \/ Return

Spec == Init /\ [][Next]_vars

\* every transport call returns or raises, every time.sleep ends, and the
\* straight-line code between them runs on: run never stops half-way
FairSpec == Spec /\ WF_vars(Next)

\* _get_python_code alone: run is at line 215 of its first task, and the
\* model has answered with any text
LetterTexts == UNION { [1..n -> Chars] : n \in 0..MaxTextLen }
Chunks == {OpenFence, CloseFence, <<"bt">>, <<"\n">>, <<"x">>}
ChunkTexts == { Concat(cs) : cs \in UNION { [1..n -> Chunks] : n \in 0..MaxChunks } }
Texts == LetterTexts \cup ChunkTexts

InitExtract ==
    /\ pc = "extract"
    /\ idx = 1
    /\ input = [i \in Tasks |-> [description |-> i, response |-> <<>>]]
    /\ \E text \in Texts : results = [i \in Tasks |-> IF i = 1 THEN <<text>> ELSE <<>>]
    /\ code = [i \in Tasks |-> <<>>]
    /\ attempt = -1
    /\ this_retry_delay = 0
    /\ response = NoResponse
    /\ e = NoException
    /\ python_code = NoCall
    /\ calls = 0
    /\ slept = 0
    /\ last_call = "none"
    /\ only_rate_limited = TRUE
    /\ inference = [i \in Tasks |-> IF i = 1 THEN "returned" ELSE "none"]
    /\ template = [i \in Tasks |-> IF i = 1 THEN "found" ELSE "unchecked"]
    /\ writes = [i \in Tasks |-> 0]

NextExtract == GetPythonCode

SpecExtract == InitExtract /\ [][NextExtract]_vars

\* ------------------------------------------------------------ claims

\* a _process_task call is in progress or has just ended
InProcessTask == pc \in {"call", "sleep", "returned", "raised"}

\* C1: when every call to the transport raises the rate-limit error,
\* _process_task makes exactly max_retries transport calls, not more and
\* not fewer, and then raises to its caller instead of returning: while
\* only rate-limit errors have come, the call is either still retrying below
\* the budget or has raised the rate-limit error after exactly max_retries
\* calls.
C1_AlwaysRateLimited ==
    (InProcessTask /\ only_rate_limited /\ last_call \in {"none", "RateLimitError"}) =>
        /\ calls <= max_retries
        /\ pc # "returned"
        /\ pc = "call" => calls < max_retries
        /\ pc = "sleep" => calls < max_retries
        /\ pc = "raised" => (calls = max_retries /\ e.type = "RateLimitError")

C1_Witness ==
    /\ pc = "raised"
    /\ only_rate_limited
    /\ last_call = "RateLimitError"
    /\ calls = max_retries

\* C2: _process_task never returns a result whose completion-token count is
\* 0: a result with 0 tokens, whatever its content, raises
\* NoContentGeneratedException carrying that content, which is retried
\* while the budget lasts; whatever _process_task returns has a nonzero count.
C2_ZeroTokensNeverReturned ==
    /\ pc = "returned" => (response \in Responses /\ response.tokens # 0)
    /\ (pc \in {"sleep", "returned", "raised"} /\ last_call = "result" /\ response.tokens = 0) =>
          /\ e.type = "NoContentGeneratedException"
          /\ e.content = response.content
          /\ pc = (IF attempt < max_retries - 1 THEN "sleep" ELSE "raised")

C2_Witness ==
    /\ pc = "sleep"
    /\ last_call = "result"
    /\ response.tokens = 0
    /\ response.content # <<>>
    /\ e.type = "NoContentGeneratedException"

\* C3: an exception of the transport that is neither the rate-limit error
\* nor the empty-content condition is propagated at once, at every attempt
\* index: the call has raised that exception, with no suspension and no
\* transport call after the one that raised it.
C3_OtherExceptionPropagates ==
    (InProcessTask /\ last_call = "Exception") =>
        /\ pc = "raised"
        /\ e.type = "Exception"
        /\ e.attempt = attempt
        /\ calls = attempt + 1
        /\ this_retry_delay = 0

C3_Witness ==
    /\ pc = "raised"
    /\ e.type = "Exception"
    /\ attempt = 3
    /\ slept > 0

\* the sum over i = 0..k-1 of retry_delay*(i+1)
RECURSIVE SumBaseDelays(_)
SumBaseDelays(k) == IF k = 0 THEN 0 ELSE SumBaseDelays(k - 1) + retry_delay * k

\* C4: when the transport raises the rate-limit error k < max_retries times
\* and then returns a result with nonzero completion tokens, _process_task
\* returns that result after exactly k+1 transport calls, having been
\* suspended k times for at least the sum over i = 0..k-1 of
\* retry_delay*(i+1) in total.
C4_RateLimitedThenSuccess ==
    (pc = "returned" /\ only_rate_limited) =>
        /\ last_call = "result"
        /\ response \in Responses
        /\ response.tokens > 0
        /\ calls <= max_retries
        /\ attempt = calls - 1
        /\ slept >= SumBaseDelays(calls - 1)

C4_Witness ==
    /\ pc = "returned"
    /\ only_rate_limited
    /\ calls = 4
    /\ slept >= SumBaseDelays(3)

\* C5: when the first transport call returns a result with completion-token
\* count > 0, _process_task returns that result after exactly one
\* transport call and with no suspension.
C5_FirstSuccessReturnsAtOnce ==
    (InProcessTask /\ calls = 1 /\ last_call = "result" /\ response.tokens > 0) =>
        /\ pc = "returned"
        /\ attempt = 0
        /\ slept = 0
        /\ this_retry_delay = 0
        /\ e = NoException

C5_Witness ==
    /\ pc = "returned"
    /\ calls = 1
    /\ response.tokens > 0
    /\ slept = 0

RetryableErrors == {"NoContentGeneratedException", "RateLimitError"}

\* C6 as stated: when the retry budget is spent the error raised to the
\* caller is a RetryExhausted error wrapping the last cause, and no
\* empty-content or rate-limit error leaves _process_task on its own.
C6_RaisesRetryExhausted ==
    pc = "raised" =>
        /\ e.type \notin RetryableErrors
        /\ inference[idx] = "exhausted" => e.type = "RetryExhausted"

\* C6 as amended: when the retry budget is spent, _process_task re-raises
\* the error of the last attempt itself, unwrapped: a retryable error
\* reaches the caller only from attempt max_retries - 1, after max_retries
\* transport calls, and it is the error that attempt ended in; the
\* retryable errors of earlier attempts never reach the caller.
C6_LastErrorReraised ==
    (pc = "raised" /\ e.type \in RetryableErrors) =>
        /\ inference[idx] = "exhausted"
        /\ calls = max_retries
        /\ attempt = max_retries - 1
        /\ e.attempt = max_retries - 1
        /\ last_call \in {"result", "RateLimitError"}
        /\ last_call = "RateLimitError" => e.type = "RateLimitError"
        /\ last_call = "result" =>
              /\ e.type = "NoContentGeneratedException"
              /\ response.tokens = 0
              /\ e.content = response.content

C6_Witness ==
    /\ pc = "raised"
    /\ e.type = "NoContentGeneratedException"
    /\ e.attempt = max_retries - 1
    /\ calls = max_retries

\* Where an opening fence begins in text, and where a closing fence begins
\* at or after position p.
OpenFenceStarts(text) == { i \in 1..Len(text) : MatchesAt(OpenFence, text, i) }
CloseFenceStartsFrom(text, p) == { j \in p..Len(text) : MatchesAt(CloseFence, text, j) }

\* text holds a well-formed fenced block: an opening fence, content, and a
\* closing fence after it
HasBlock(text) ==
    \E i \in OpenFenceStarts(text) : CloseFenceStartsFrom(text, i + Len(OpenFence)) # {}

\* the content between the first opening fence of text and the next closing
\* fence, for a text that holds a block
FirstBlockOpen(text) == Min(OpenFenceStarts(text)) + Len(OpenFence)
FirstBlockClose(text) == Min(CloseFenceStartsFrom(text, FirstBlockOpen(text)))
FirstBlock(text) == SubSeq(text, FirstBlockOpen(text), FirstBlockClose(text) - 1)

\* what may follow the closing fence of the first block
Suffixes ==
    { <<>>, <<"bt">>, <<"x", "\n">>, CloseFence, OpenFence \o <<"x">> \o CloseFence }

\* the text _get_python_code was called on (line 215)
ExtractedFrom == results[idx][1]

\* C7: for every text with at least one well-formed fenced block,
\* _get_python_code returns exactly the content between the first opening
\* fence and the next closing fence; the result is the same whatever follows
\* that closing fence, and later blocks are not appended to it.
C7_FirstBlockOnly ==
    (pc = "extracted" /\ HasBlock(ExtractedFrom)) =>
        LET text == ExtractedFrom
            upto == SubSeq(text, 1, FirstBlockClose(text) + Len(CloseFence) - 1)
        IN  /\ python_code = Returned(FirstBlock(text))
            /\ \A s \in Suffixes : get_python_code(upto \o s) = python_code

C7_Witness ==
    /\ pc = "extracted"
    /\ Len(findall(ExtractedFrom).list) = 2
    /\ python_code.kind = "return"
    /\ python_code.value = <<"x">>
    /\ Len(ExtractedFrom) > Len(OpenFence) + 1 + Len(CloseFence)

\* C8: _get_python_code is total: for every text without a fenced block it
\* returns the fallback string unchanged and raises no error.
C8_FallbackWhenNoBlock ==
    (pc = "extracted" /\ ~HasBlock(ExtractedFrom)) =>
        python_code = Returned(FAILED_RESPONSE)

\* the per-task sequence of task i (lines 169-226) is over
Handled(i) ==
    IF pc \in {"merge", "done"} THEN TRUE
    ELSE IF pc = "aborted" /\ e.type = "KeyError" THEN TRUE
    ELSE idx > i

InferenceFailed(i) == inference[i] \in {"exhausted", "fatal"}

C9_States ==
    /\ pc = "aborted" => e.type \notin (RetryableErrors \cup {"Exception"})
    /\ \A i \in Tasks :
         (Handled(i) /\ InferenceFailed(i)) =>
             /\ code[i] = <<FAILED_RESPONSE>>
             /\ results[i] = <<>>
    /\ pc = "done" =>
         \A i \in Tasks :
             /\ inference[i] # "none"
             /\ InferenceFailed(i) => input[i].response = <<FAILED_RESPONSE>>
             /\ (inference[i] = "returned" /\ HasBlock(results[i][1])) =>
                    input[i].response = <<FirstBlock(results[i][1])>>

C9_Step ==
    pc = "raised" =>
        /\ pc' = "loop"
        /\ idx' = idx + 1
        /\ code' = [code EXCEPT ![idx] = <<FAILED_RESPONSE>>]
        /\ UNCHANGED <<results, input>>

\* C9: in run, a task whose inference ends in retry exhaustion or in a
\* non-retryable transport fault never aborts the batch: the canned program
\* is recorded for that task and for no other, the loop goes on with the
\* next task, and when run returns the failed task has the canned program
\* as response while every task whose inference succeeded on a text with a
\* block has its own extracted code.
C9_FailedTaskDoesNotAbortBatch == []C9_States /\ [][C9_Step]_vars

C9_Witness ==
    /\ pc = "done"
    /\ inference[1] = "exhausted"
    /\ inference[2] = "returned"
    /\ input[1].response = <<FAILED_RESPONSE>>
    /\ input[2].response = << <<"x", "\n">> >>

C10_States ==
    /\ pc = "aborted" => e.type # "IndexError"
    /\ \A i \in Tasks :
         (Handled(i) /\ inference[i] = "returned" /\ results[i] # <<>>
            /\ ~HasBlock(results[i][1])) =>
             /\ code[i] = <<FAILED_RESPONSE>>
             /\ pc = "done" => input[i].response = <<FAILED_RESPONSE>>

C10_Step ==
    (pc = "extracted" /\ ~HasBlock(results[idx][1])) =>
        /\ pc' = "loop"
        /\ idx' = idx + 1
        /\ code' = [code EXCEPT ![idx] = <<FAILED_RESPONSE>>]

\* C10: in run, a task whose inference succeeds but whose text holds no
\* fenced block ends with response equal to FAILED_RESPONSE, and the run
\* goes on with the remaining tasks.
C10_NoBlockGivesFallback == []C10_States /\ [][C10_Step]_vars

C10_Witness ==
    /\ pc = "done"
    /\ results[1] = << <<"x", "x">> >>
    /\ input[1].response = <<FAILED_RESPONSE>>
    /\ inference[2] = "returned"
    /\ input[2].response = << <<"x", "\n">> >>

\* what the response of task i can be: the code extracted from its own
\* text, or the canned program
ResponseValues(i) ==
    {<<FAILED_RESPONSE>>} \cup
    (IF results[i] # <<>> /\ HasBlock(results[i][1])
     THEN {<<FirstBlock(results[i][1])>>} ELSE {})

HasResponse(i) == "response" \in DOMAIN input[i] /\ input[i].response # <<>>

\* C11 as stated: for every run and every task the response field is set
\* exactly once: when the run has ended, however it ended, every task has
\* been written once.
C11_SetOnceInEveryRun ==
    pc \in {"done", "aborted"} =>
        \A i \in Tasks : writes[i] = 1 /\ HasResponse(i)

\* C11 as amended: in every run that returns, the response field of every
\* task has been set exactly once, to the code extracted from the text of
\* that task or to the canned program; in no run is a response field
\* written a second time.
C11_SetOnceWhenRunReturns ==
    /\ \A i \in Tasks :
         /\ writes[i] <= 1
         /\ writes[i] = 1 <=> HasResponse(i)
         /\ HasResponse(i) => input[i].response \in ResponseValues(i)
    /\ pc = "done" => \A i \in Tasks : writes[i] = 1

C11_Witness ==
    /\ pc = "done"
    /\ \A i \in Tasks : writes[i] = 1
    /\ input[1].response = <<FAILED_RESPONSE>>
    /\ input[2].response = << <<"\n">> >>

\* C12: when the prompt template is absent while a task is being started,
\* run raises FileNotFoundError out of the per-task handling: no canned
\* program is recorded for that task, and the run has ended at that task
\* with no later task started.
C12_TemplateMissingAbortsRun ==
    \A i \in Tasks :
        template[i] = "missing" =>
            /\ pc = "aborted"
            /\ e.type = "FileNotFoundError"
            /\ idx = i
            /\ \A j \in Tasks :
                 j >= i => /\ code[j] = <<>>
                           /\ results[j] = <<>>
                           /\ inference[j] = "none"
                           /\ (j > i => template[j] = "unchecked")

C12_Witness ==
    /\ pc = "aborted"
    /\ template[1] = "found"
    /\ template[2] = "missing"
    /\ code[1] # <<>>
    /\ code[2] = <<>>

\* an error was raised in the per-task sequence of task i
RaisedInsideTry(i) ==
    \/ InferenceFailed(i)
    \/ inference[i] = "returned" /\ results[i] # <<>> /\ ~HasBlock(results[i][1])

\* C13 as stated: when any step of the per-task sequence of a task raises,
\* a missing prompt template included, the canned program is recorded for
\* that task and the next task is processed; no failure of a single task
\* aborts the batch.
C13_AnyErrorGivesFallback ==
    /\ pc # "aborted"
    /\ \A i \in Tasks :
         (template[i] = "missing" \/ (Handled(i) /\ RaisedInsideTry(i))) =>
             code[i] = <<FAILED_RESPONSE>>

C13_States ==
    /\ pc = "aborted" => (e.type = "FileNotFoundError" /\ template[idx] = "missing")
    /\ \A i \in Tasks :
         /\ (Handled(i) /\ template[i] = "found" /\ RaisedInsideTry(i)) =>
                code[i] = <<FAILED_RESPONSE>>
         /\ template[i] = "missing" => (pc = "aborted" /\ code[i] = <<>>)

C13_Step ==
    (pc = "raised" \/ (pc = "extracted" /\ python_code.kind = "raise")) =>
        /\ pc' = "loop"
        /\ idx' = idx + 1
        /\ code' = [code EXCEPT ![idx] = <<FAILED_RESPONSE>>]

\* C13 as amended: when a step inside the try of a task raises (the
\* inference is exhausted or fails, or the extraction raises), the canned
\* program is recorded for that task and the loop goes on with the next
\* task; a missing prompt template is raised before the try, records
\* nothing and aborts the run.
C13_ErrorsInsideTryGiveFallback == []C13_States /\ [][C13_Step]_vars

C13_Witness ==
    /\ pc = "loop"
    /\ idx = 2
    /\ inference[1] = "fatal"
    /\ code[1] = <<FAILED_RESPONSE>>

InTask == pc \in {"call", "sleep", "returned", "raised", "extract", "extracted"}

C14_States ==
    InTask =>
        /\ idx \in Tasks
        /\ template[idx] = "found"
        /\ \A i \in Tasks :
             /\ i < idx => (code[i] # <<>> /\ inference[i] # "none")
             /\ i > idx => /\ code[i] = <<>>
                           /\ inference[i] = "none"
                           /\ template[i] = "unchecked"

C14_Step ==
    /\ (InTask /\ InTask') => idx' = idx
    /\ (InTask /\ ~InTask') => (idx' = idx + 1 /\ code'[idx] # <<>>)
    /\ (pc = "loop" /\ InTask') => (idx' = idx /\ pc' = "call" /\ calls' = 0)

\* C14: run processes the tasks one after another in the order of the
\* input mapping: while a task is in its transport calls and suspensions,
\* every task before it has its final outcome recorded and no later task
\* has been started; a task is left only with its outcome recorded, and the
\* next one started is the next of the mapping.
C14_TasksStrictlySequential == []C14_States /\ [][C14_Step]_vars

C14_Witness ==
    /\ pc = "sleep"
    /\ idx = 2
    /\ attempt = 2
    /\ inference[1] = "exhausted"
    /\ code[1] = <<FAILED_RESPONSE>>

\* C15: when run returns, the returned mapping is the input mapping with
\* the same task identifiers; every record has a response field, and every
\* other field of every record is as it was given.
C15_ReturnsInputWithResponses ==
    /\ DOMAIN input = Tasks
    /\ \A i \in Tasks :
         /\ "description" \in DOMAIN input[i]
         /\ input[i].description = i
    /\ pc = "done" =>
         \A i \in Tasks :
             /\ DOMAIN input[i] = {"description", "response"}
             /\ HasResponse(i)
             /\ input[i].response = code[i]

C15_Witness ==
    /\ pc = "done"
    /\ \A i \in Tasks : HasResponse(i) /\ input[i].description = i
    /\ input[1].response # input[2].response

\* a retryable failure has just ended the attempt
AfterRetryableFailure ==
    pc \in {"sleep", "raised"} /\ e.type \in RetryableErrors /\ e.attempt = attempt

\* C16: in _process_task a suspension follows a retryable failure at
\* attempt index i if and only if i < max_retries - 1, and it lasts
\* retry_delay*(i+1) + jitter with jitter an integer in 1..10; after a
\* retryable failure at index max_retries - 1 there is no suspension and
\* the error is raised at once.
C16_BackoffSchedule ==
    /\ AfterRetryableFailure => (pc = "sleep" <=> attempt < max_retries - 1)
    /\ pc = "sleep" =>
         /\ AfterRetryableFailure
         /\ this_retry_delay - retry_delay * (attempt + 1) \in jitter_min..jitter_max
    /\ pc # "sleep" => this_retry_delay = 0
    /\ (AfterRetryableFailure /\ attempt = max_retries - 1) =>
         (pc = "raised" /\ this_retry_delay = 0)

\* two suspensions of one call with different jitters: 60*1 + 1, then 60*2 + 10
C16_Witness ==
    /\ pc = "sleep"
    /\ attempt = 1
    /\ slept = retry_delay + jitter_min
    /\ this_retry_delay = retry_delay * 2 + jitter_max

\* C17: retry state is per call: whatever the tasks before it did, the
\* _process_task call of every task starts at attempt index 0, its attempt
\* index is the number of its own failed calls, its first backoff is
\* retry_delay*1 plus jitter, and it gives up only after max_retries calls
\* of its own.
C17_RetryStatePerCall ==
    /\ pc = "call" => (attempt = calls /\ attempt < max_retries)
    /\ pc \in {"sleep", "returned", "raised"} => attempt = calls - 1
    /\ (pc = "call" /\ calls = 0) => (attempt = 0 /\ slept = 0 /\ this_retry_delay = 0)
    /\ (pc = "sleep" /\ calls = 1) =>
          this_retry_delay - retry_delay \in jitter_min..jitter_max
    /\ (pc = "raised" /\ e.type \in RetryableErrors) => calls = max_retries
    /\ ~InProcessTask => attempt = -1

C17_Witness ==
    /\ idx = 2
    /\ inference[1] = "exhausted"
    /\ pc = "sleep"
    /\ calls = 1
    /\ attempt = 0
    /\ this_retry_delay = retry_delay + jitter_min

\* C18: empty-content and rate-limit failures draw on one attempt counter:
\* however the two kinds alternate within one _process_task call, the
\* transport calls never exceed max_retries, and the backoff after the
\* n-th failed call is retry_delay*n plus jitter whichever kind it and the
\* failures before it were.
C18_SharedAttemptCounter ==
    /\ calls <= max_retries
    /\ pc = "sleep" =>
         /\ e.type \in RetryableErrors
         /\ calls < max_retries
         /\ this_retry_delay - retry_delay * calls \in jitter_min..jitter_max
    /\ (pc = "raised" /\ e.type \in RetryableErrors) => calls = max_retries

\* a rate-limit failure after an empty-content failure, then the reverse
C18_Witness ==
    /\ pc = "sleep"
    /\ calls = 3
    /\ e.type = "NoContentGeneratedException"
    /\ ~only_rate_limited
    /\ slept > 0
    /\ this_retry_delay = retry_delay * 3 + jitter_min

RunEnded == pc \in {"done", "aborted"}

\* C19: when every transport call and every suspension completes, each
\* _process_task call ends, by returning or by raising, within at most
\* max_retries transport calls, and run over its finite task mapping ends,
\* by returning the mapping or by aborting; the retry loop never runs
\* forever.
C19_Terminates ==
    /\ [](calls <= max_retries /\ attempt < max_retries)
    /\ (pc = "call") ~> (pc \in {"returned", "raised"})
    /\ <>RunEnded

C19_Witness ==
    /\ pc = "done"
    /\ inference[1] = "exhausted"
    /\ inference[2] = "exhausted"

\* C20: run writes response fields only after every task has been
\* processed: while the first loop runs no record of the input mapping has
\* been modified, and a run that aborts at a missing template leaves every
\* response field unset, those of the tasks already processed included.
C20_ResponsesWrittenAfterLoop ==
    /\ pc \notin {"merge", "done"} =>
         \A i \in Tasks :
             /\ writes[i] = 0
             /\ input[i] = [description |-> i, response |-> <<>>]
    /\ \A i \in Tasks :
         HasResponse(i) => \A j \in Tasks : code[j] # <<>>

C20_Witness ==
    /\ pc = "aborted"
    /\ idx = 2
    /\ inference[1] = "returned"
    /\ code[1] = << <<"x", "\n">> >>
    /\ \A i \in Tasks : ~HasResponse(i)

====
